---- MODULE Spec2Model ----
(***************************************************************************)
(* Model of the 2048 game engine of src/src/main.rs: the tile matrix, the  *)
(* move/merge sweep (move_all, move_direction), can_move, add_tile,        *)
(* finish_animation and the key loop of Game::run.                         *)
(***************************************************************************)
EXTENDS Integers, Sequences, FiniteSets, TLC

\* ------------------------------------------------------------ constants
NCOLS == 5
NROWS == 4

Cols == 0 .. (NCOLS - 1)
Rows == 0 .. (NROWS - 1)
Cells == Cols \X Rows

Directions == {"Up", "Down", "Left", "Right"}

\* Direction::offset
offset(d) ==
  CASE d = "Up"    -> <<0, -1>>
    [] d = "Down"  -> <<0, 1>>
    [] d = "Left"  -> <<-1, 0>>
    [] d = "Right" -> <<1, 0>>

\* ----------------------------------------------------------------- Tile
\* Tile::new and Tile::from_value
from_value(val) ==
  [value |-> val, value_old |-> 0, blocked |-> FALSE, pending |-> FALSE]

new_tile == from_value(0)

\* Tile::set: the previous value is kept in value_old
set(t, val) == [t EXCEPT !.value_old = t.value, !.value = val]

\* Tile::get: a pending tile still shows its old value
get(t) == IF t.pending THEN t.value_old ELSE t.value

is_empty(t) == t.value = 0

\* impl PartialEq for Tile: tiles compare by value only
tile_eq(a, b) == a.value = b.value

\* ----------------------------------------------------------------- Game
\* add_score with the win test written as a threshold
add_score_threshold(g, sc) ==
  [g EXCEPT !.score = @ + sc,
            !.state = IF sc >= 2048 THEN "Won" ELSE @]

\* add_score: the score grows by the merge result; exactly 2048 wins
add_score(g, sc) ==
  [g EXCEPT !.score = @ + sc,
            !.state = IF sc = 2048 THEN "Won" ELSE @]

\* The merge branch of move_direction, origin (x, y), destination (xn, yn).
\* history of a sweep: at maps the cell a tile started the sweep in to the
\* cell it is in now; the tiles in cell src go to cell dst
carried(at, src, dst) == [c \in Cells |-> IF at[c] = src THEN dst ELSE at[c]]

\* merges and product are history: the log of the merges of this sweep and
\* the cells that hold a tile made by a merge of this sweep.
merge_into(g, x, y, xn, yn) ==
  LET val == get(g.grid[xn][yn])
      g1  == [g EXCEPT !.grid[x][y] = set(@, 0)]
      g2  == [g1 EXCEPT !.grid[xn][yn] = set(@, val * 2)]
      g3  == add_score(g2, val * 2)
  IN [g3 EXCEPT !.grid[xn][yn].blocked = TRUE,
                !.moved = TRUE,
                !.merges = Append(@, [from   |-> <<x, y>>,
                                      to     |-> <<xn, yn>>,
                                      v      |-> g.grid[x][y].value,
                                      origin |-> g3.grid[x][y].value,
                                      result |-> g3.grid[xn][yn].value,
                                      added  |-> g3.score - g.score,
                                      again  |-> <<x, y>> \in g.product
                                                 \/ <<xn, yn>> \in g.product]),
                !.product = (@ \ {<<x, y>>}) \cup {<<xn, yn>>},
                !.at = carried(g.at, <<x, y>>, <<xn, yn>>)]

\* The slide branch of move_direction: the tile steps into the empty cell.
slide_into(g, x, y, xn, yn) ==
  LET val == get(g.grid[x][y])
      g1  == [g EXCEPT !.grid[xn][yn] = set(@, val)]
  IN [g1 EXCEPT !.grid[x][y] = set(@, 0),
                !.moved = TRUE,
                !.product = IF <<x, y>> \in @
                            THEN (@ \ {<<x, y>>}) \cup {<<xn, yn>>}
                            ELSE @,
                !.at = carried(g.at, <<x, y>>, <<xn, yn>>)]

\* move_direction that advances the tile one cell only
move_direction_once(g, x, y, d) ==
  LET xnew == x + offset(d)[1]
      ynew == y + offset(d)[2]
  IN IF ynew < 0 \/ ynew > NROWS - 1 \/ xnew < 0 \/ xnew > NCOLS - 1
     THEN [g |-> g, x |-> x, y |-> y]
     ELSE IF /\ ~is_empty(g.grid[xnew][ynew])
             /\ tile_eq(g.grid[xnew][ynew], g.grid[x][y])
             /\ ~g.grid[x][y].blocked
             /\ ~g.grid[xnew][ynew].blocked
          THEN [g |-> merge_into(g, x, y, xnew, ynew), x |-> xnew, y |-> ynew]
          ELSE IF is_empty(g.grid[xnew][ynew]) /\ ~is_empty(g.grid[x][y])
               THEN [g |-> slide_into(g, x, y, xnew, ynew), x |-> xnew, y |-> ynew]
               ELSE [g |-> g, x |-> x, y |-> y]

RECURSIVE move_direction(_, _, _, _)
move_direction(g, x, y, d) ==
  LET xnew == x + offset(d)[1]
      ynew == y + offset(d)[2]
  IN IF ynew < 0 \/ ynew > NROWS - 1 \/ xnew < 0 \/ xnew > NCOLS - 1
     THEN [g |-> g, x |-> x, y |-> y]
     ELSE IF /\ ~is_empty(g.grid[xnew][ynew])
             /\ tile_eq(g.grid[xnew][ynew], g.grid[x][y])
             /\ ~g.grid[x][y].blocked
             /\ ~g.grid[xnew][ynew].blocked
          THEN move_direction(merge_into(g, x, y, xnew, ynew), xnew, ynew, d)
          ELSE IF is_empty(g.grid[xnew][ynew]) /\ ~is_empty(g.grid[x][y])
               THEN move_direction(slide_into(g, x, y, xnew, ynew), xnew, ynew, d)
               ELSE [g |-> g, x |-> x, y |-> y]

\* One cell of the sweep of move_all: cell k in the order i outer, j inner.
move_cell(g, i, j, d) ==
  LET tile == g.grid[i][j]
  IN IF is_empty(tile)
     THEN g
     ELSE LET r == move_direction(g, i, j, d)
          IN IF r.x # i \/ r.y # j
             THEN [r.g EXCEPT !.grid[r.x][r.y].pending = TRUE,
                              !.tiles_moving =
                                 Append(@, [tile |-> tile,
                                            pold |-> <<i, j>>,
                                            pnew |-> <<r.x, r.y>>])]
             ELSE r.g

RECURSIVE move_from(_, _, _)
move_from(g, k, d) ==
  IF k = NCOLS * NROWS
  THEN g
  ELSE move_from(move_cell(g, k \div NROWS, k % NROWS, d), k + 1, d)

\* move_all: every cell, columns 0..NCOLS-1 outer, rows 0..NROWS-1 inner,
\* whatever the direction
move_all(g, direc) == move_from(g, 0, direc)

\* test_add: the bound check is written with the literal 3 for both axes
test_add(g, x, y, v) ==
  IF x > 3 \/ y > 3 THEN FALSE ELSE tile_eq(g[x][y], v)

\* can_move's tests with the diagonal cell tested as well
can_move_at_diagonal(g, i, j) ==
  \/ is_empty(g[i][j])
  \/ test_add(g, i + 1, j, g[i][j])
  \/ (i > 0 /\ test_add(g, i - 1, j, g[i][j]))
  \/ test_add(g, i, j + 1, g[i][j])
  \/ (j > 0 /\ test_add(g, i, j - 1, g[i][j]))
  \/ test_add(g, i + 1, j + 1, g[i][j])

\* the tests can_move makes at cell (i, j)
can_move_at(g, i, j) ==
  \/ is_empty(g[i][j])
  \/ test_add(g, i + 1, j, g[i][j])
  \/ (i > 0 /\ test_add(g, i - 1, j, g[i][j]))
  \/ test_add(g, i, j + 1, g[i][j])
  \/ (j > 0 /\ test_add(g, i, j - 1, g[i][j]))

\* can_move over a grid
can_move(g) == \E i \in Cols : \E j \in Rows : can_move_at(g, i, j)

\* add_tile with the random cell not tested for being empty
add_tile_any_cell(g, pa) ==
  LET cantadd  == \A c \in Cells : ~is_empty(g[c[1]][c[2]])
      cantmove == ~can_move(g)
  IN IF cantadd \/ cantmove
     THEN {pa}
     ELSE {Append(pa, [position |-> c, value |-> val]) :
             c \in Cells, val \in {2, 4}}

\* add_tile: nothing when no cell is empty or can_move is false; otherwise one
\* Appearing of value 2 or 4 on a random cell that is empty in the grid.
\* The set of the lists points_appearing that add_tile can leave.
add_tile(g, pa) ==
  LET cantadd  == \A c \in Cells : ~is_empty(g[c[1]][c[2]])
      cantmove == ~can_move(g)
  IN IF cantadd \/ cantmove
     THEN {pa}
     ELSE {Append(pa, [position |-> c, value |-> val]) :
             c \in {e \in Cells : is_empty(g[e[1]][e[2]])}, val \in {2, 4}}

\* finish_animation's first loop clearing the flag at the origin pold of
\* every Movement instead of its destination
RECURSIVE clear_pending_at_pold(_, _)
clear_pending_at_pold(g, tm) ==
  IF tm = <<>>
  THEN g
  ELSE clear_pending_at_pold(
         [g EXCEPT ![Head(tm).pold[1]][Head(tm).pold[2]].pending = FALSE],
         Tail(tm))

\* finish_animation, first loop: the destination of every Movement stops
\* being pending
RECURSIVE clear_pending(_, _)
clear_pending(g, tm) ==
  IF tm = <<>>
  THEN g
  ELSE clear_pending([g EXCEPT ![Head(tm).pnew[1]][Head(tm).pnew[2]].pending = FALSE],
                     Tail(tm))

\* finish_animation, second loop: every Appearing is set into the grid
RECURSIVE commit_appearing(_, _)
commit_appearing(g, pa) ==
  IF pa = <<>>
  THEN g
  ELSE commit_appearing(
         [g EXCEPT ![Head(pa).position[1]][Head(pa).position[2]] =
                      set(@, Head(pa).value)],
         Tail(pa))

\* finish_animation: the grid it leaves (both lists are truncated to empty)
finish_animation(g, tm, pa) == commit_appearing(clear_pending(g, tm), pa)

\* finish_animation without the truncation of points_appearing
finished_keep_appearing(g, tm, pa) ==
  [grid |-> finish_animation(g, tm, pa),
   tiles_moving |-> <<>>,
   points_appearing |-> pa]

\* finish_animation on the grid and the two lists: what it leaves of the three
finished(g, tm, pa) ==
  [grid |-> finish_animation(g, tm, pa),
   tiles_moving |-> <<>>,
   points_appearing |-> <<>>]

\* wait_key's timeout in run, and the animation's duration in get_progress
TimeoutMs == 10
AnimationMs == 500

\* get_progress, in thousandths, e milliseconds after animation_start: the
\* elapsed time is computed in u16 (seconds * 1000 + milliseconds)
get_progress(e) ==
  LET secs_ms == (((e \div 1000) % 65536) * 1000) % 65536
      elapsed_u16 == (secs_ms + (e % 1000)) % 65536
  IN (elapsed_u16 * 1000) \div AnimationMs

\* draw_moving: past ratio 0.99 the animation is finished, otherwise the
\* grid and the lists are only drawn
draw_moving(g, tm, pa, e) ==
  IF get_progress(e) > 990
  THEN finished(g, tm, pa)
  ELSE [grid |-> g, tiles_moving |-> tm, points_appearing |-> pa]

\* run, lines 385-390: the wait is the timed one when tiles are moving
timed_wait(tm) == Len(tm) > 0

\* the loop over the grid that resets every blocked flag
unblock(g) == [i \in Cols |-> [j \in Rows |-> [g[i][j] EXCEPT !.blocked = FALSE]]]

\* ------------------------------------------------------------- bounds
\* moving keys explored from a seeded mid-game position
MaxMoves == 1
\* milliseconds one turn of the loop takes beyond the wait itself
Lag == 245

\* ------------------------------------------------------ seeded positions
\* A full background with no two adjacent cells equal.
Background(i, j) == IF (i + j) % 2 = 0 THEN 8 ELSE 16

\* the background with row 0 replaced by the five values of r
BoardRow(r) ==
  [i \in Cols |-> [j \in Rows |->
     from_value(IF j = 0 THEN r[i + 1] ELSE Background(i, j))]]

\* the background with column NCOLS-1 replaced by the four values of c
BoardCol(c) ==
  [i \in Cols |-> [j \in Rows |->
     from_value(IF i = NCOLS - 1 THEN c[j + 1] ELSE Background(i, j))]]

LowVals  == {0, 2, 4}
HighVals == {2, 1024, 2048}
PairVals == {2, 4}

Boards ==
  {BoardRow(r \o <<0>>) : r \in [1 .. NCOLS - 1 -> LowVals]}
    \cup {BoardRow(<<2>> \o r) : r \in [1 .. NCOLS - 1 -> HighVals]}
    \cup {BoardCol(c) : c \in [1 .. NROWS -> PairVals]}

\* ------------------------------------------------------------ the state
VARIABLES
  grid,              \* Game::grid, [column][row]
  state,             \* Game::state
  score,             \* Game::score
  moved,             \* Game::moved
  tiles_moving,      \* Game::tiles_moving
  points_appearing,  \* Game::points_appearing
  pc,                \* the position in Game::run
  key,               \* the direction key being handled
  merges,            \* history: the merges of the last move_all
  pre,               \* history: the game when the last direction key arrived
  elapsed,           \* milliseconds since animation_start at the last draw
  budget             \* moving keys still explored

vars == <<grid, state, score, moved, tiles_moving, points_appearing,
          pc, key, merges, pre, elapsed, budget>>

\* the tile values of a grid
ValuesOf(g) == [i \in Cols |-> [j \in Rows |-> g[i][j].value]]

InBounds(c) == c[1] \in Cols /\ c[2] \in Rows

\* the cell next to c in direction d
Toward(c, d) == <<c[1] + offset(d)[1], c[2] + offset(d)[2]>>

HasEmpty(g) == \E c \in Cells : g[c[1]][c[2]].value = 0

\* two cells next to each other, in a row or in a column, hold equal values
HasEqualNeighbours(g) ==
  \E c \in Cells : \E d \in {"Down", "Right"} :
     /\ InBounds(Toward(c, d))
     /\ g[c[1]][c[2]].value = g[Toward(c, d)[1]][Toward(c, d)[2]].value

\* a full grid with no two neighbours equal
Dead(g) == ~HasEmpty(g) /\ ~HasEqualNeighbours(g)

RECURSIVE SumFrom(_, _)
SumFrom(g, k) ==
  IF k = NCOLS * NROWS
  THEN 0
  ELSE g[k \div NROWS][k % NROWS].value + SumFrom(g, k + 1)

\* the sum of all tile values of a grid
Sum(g) == SumFrom(g, 0)

\* Game::new
NewGrid == [i \in Cols |-> [j \in Rows |-> new_tile]]

InitNew ==
  /\ grid = NewGrid
  /\ pc = "start"
  /\ elapsed = 0
  /\ budget = 0

\* a settled position of the loop, waiting for a key with nothing pending
InitSeed ==
  /\ grid \in Boards
  /\ pc = "wait"
  /\ elapsed = 0
  /\ budget = MaxMoves

Init ==
  /\ (InitNew \/ InitSeed)
  /\ state = "Playing"
  /\ score = 0
  /\ moved = FALSE
  /\ tiles_moving = <<>>
  /\ points_appearing = <<>>
  /\ key = "none"
  /\ merges = <<>>
  /\ pre = [state |-> "none", score |-> 0, dead |-> FALSE, values |-> <<>>,
            moved |-> FALSE, again |-> FALSE]

\* the game as the record the sweep works on
Game ==
  [grid |-> grid, state |-> state, score |-> score, moved |-> moved,
   tiles_moving |-> tiles_moving, merges |-> <<>>, product |-> {},
   at |-> [c \in Cells |-> c]]

\* what move_all(d) would report as moved on the settled grid
would_move(d) ==
  /\ state = "Playing"
  /\ move_all([Game EXCEPT !.grid = finish_animation(grid, tiles_moving,
                                                     points_appearing),
                           !.tiles_moving = <<>>], d).moved

\* run, lines 377-379: the two start-up spawns, then the first draw
Startup ==
  /\ pc = "start"
  /\ \E pa1 \in add_tile(grid, points_appearing) :
       \E pa2 \in add_tile(grid, pa1) :
         LET d == draw_moving(grid, tiles_moving, pa2, elapsed)
         IN /\ grid' = d.grid
            /\ tiles_moving' = d.tiles_moving
            /\ points_appearing' = d.points_appearing
  /\ moved' = FALSE
  /\ pc' = "wait"
  /\ UNCHANGED <<state, score, key, merges, pre, elapsed, budget>>

\* the quit key breaks the loop
KeyQuit ==
  /\ pc = "wait"
  /\ pc' = "done"
  /\ UNCHANGED <<grid, state, score, moved, tiles_moving, points_appearing,
                 key, merges, pre, elapsed, budget>>

\* run, lines 394-396 and 382-383: no key, continue; the next draw comes dt
\* milliseconds later and finishes the animation when its time has passed
Continue(dt) ==
  /\ elapsed' = elapsed + dt
  /\ LET d == draw_moving(grid, tiles_moving, points_appearing, elapsed + dt)
     IN /\ grid' = d.grid
        /\ tiles_moving' = d.tiles_moving
        /\ points_appearing' = d.points_appearing
  /\ moved' = FALSE
  /\ UNCHANGED <<state, score, pc, key, merges, pre, budget>>

\* the timed wait ends with no event
Timeout ==
  /\ pc = "wait"
  /\ timed_wait(tiles_moving)
  /\ Continue(TimeoutMs + Lag)

\* an event that wait_key maps to None ends the wait, timed or not; explored
\* while something is pending (with nothing pending the draw that follows
\* changes nothing but the time)
KeyNone ==
  /\ pc = "wait"
  /\ tiles_moving # <<>> \/ points_appearing # <<>>
  /\ Continue(TimeoutMs + Lag)

\* a direction key: the on-going animation is finished at once
KeyDir(d) ==
  /\ pc = "wait"
  /\ budget > 0 \/ ~would_move(d)
  /\ LET f == finished(grid, tiles_moving, points_appearing)
     IN /\ grid' = f.grid
        /\ tiles_moving' = f.tiles_moving
        /\ points_appearing' = f.points_appearing
  /\ key' = d
  /\ pre' = [state |-> state, score |-> score, dead |-> Dead(grid'),
             values |-> ValuesOf(grid'),
             moved |-> FALSE,
             again |-> pre.state # "none" /\ key = d /\ ~pre.moved]
  /\ elapsed' = 0   \* not read again before animation_start is reset
  /\ pc' = "move"
  /\ UNCHANGED <<state, score, moved, merges, budget>>

\* the move step without the test of the state
Move_any_state ==
  /\ pc = "move"
  /\ LET g == move_all(Game, key)
     IN /\ grid' = g.grid
        /\ state' = g.state
        /\ score' = g.score
        /\ moved' = g.moved
        /\ tiles_moving' = g.tiles_moving
        /\ merges' = g.merges
  /\ pc' = "moved"
  /\ UNCHANGED <<points_appearing, key, pre, elapsed, budget>>

\* run, lines 402-412: move_all unless the game is Won or Lost
Move ==
  /\ pc = "move"
  /\ IF state # "Lost" /\ state # "Won"
     THEN LET g == move_all(Game, key)
          IN /\ grid' = g.grid
             /\ state' = g.state
             /\ score' = g.score
             /\ moved' = g.moved
             /\ tiles_moving' = g.tiles_moving
             /\ merges' = g.merges
     ELSE /\ merges' = <<>>
          /\ UNCHANGED <<grid, state, score, moved, tiles_moving>>
  /\ pc' = "moved"
  /\ UNCHANGED <<points_appearing, key, pre, elapsed, budget>>

\* the end of the loop body with add_tile never called
Settle_no_spawn ==
  /\ pc = "moved"
  /\ LET d == draw_moving(unblock(grid), tiles_moving, points_appearing, 0)
     IN /\ grid' = d.grid
        /\ tiles_moving' = d.tiles_moving
        /\ points_appearing' = d.points_appearing
  /\ IF moved
     THEN /\ budget' = budget - 1
          /\ UNCHANGED state
     ELSE /\ state' = IF ~can_move(unblock(grid)) THEN "Lost" ELSE state
          /\ UNCHANGED budget
  /\ elapsed' = 0
  /\ moved' = FALSE
  /\ pre' = [pre EXCEPT !.values = <<>>, !.moved = moved]
  /\ pc' = "wait"
  /\ UNCHANGED <<score, key, merges>>

\* the end of the loop body with add_tile called whether or not a tile moved
Settle_always_spawn ==
  /\ pc = "moved"
  /\ \E pa \in add_tile(unblock(grid), points_appearing) :
       LET d == draw_moving(unblock(grid), tiles_moving, pa, 0)
       IN /\ grid' = d.grid
          /\ tiles_moving' = d.tiles_moving
          /\ points_appearing' = d.points_appearing
  /\ IF moved
     THEN /\ budget' = budget - 1
          /\ UNCHANGED state
     ELSE /\ state' = IF ~can_move(unblock(grid)) THEN "Lost" ELSE state
          /\ UNCHANGED budget
  /\ elapsed' = 0
  /\ moved' = FALSE
  /\ pre' = [pre EXCEPT !.values = <<>>, !.moved = moved]
  /\ pc' = "wait"
  /\ UNCHANGED <<score, key, merges>>

\* run, lines 414-425 and the draw that follows: the blocked flags are reset,
\* then a tile is added after a move, or the game is Lost when nothing can move
Settle ==
  /\ pc = "moved"
  /\ \E pa \in IF moved
              THEN add_tile(unblock(grid), points_appearing)
              ELSE {points_appearing} :
       LET d == draw_moving(unblock(grid), tiles_moving, pa, 0)
       IN /\ grid' = d.grid
          /\ tiles_moving' = d.tiles_moving
          /\ points_appearing' = d.points_appearing
  /\ IF moved
     THEN /\ budget' = budget - 1
          /\ UNCHANGED state
     ELSE /\ state' = IF ~can_move(unblock(grid)) THEN "Lost" ELSE state
          /\ UNCHANGED budget
  /\ elapsed' = 0
  /\ moved' = FALSE
  /\ pre' = [pre EXCEPT !.values = <<>>, !.moved = moved]
  /\ pc' = "wait"
  /\ UNCHANGED <<score, key, merges>>

Next ==
  \/ Startup
  \/ KeyQuit
  \/ Timeout
  \/ KeyNone
  \/ \E d \in Directions : KeyDir(d)
  \/ Move
  \/ Settle

Spec == Init /\ [][Next]_vars

\* the timed wait returns: peek_event comes back after its 10 ms
FairSpec == Spec /\ WF_vars(Timeout)

\* ------------------------------------------------------------ the claims

\* C1: within one move_all no tile takes part in more than one merge: no merge
\* of the sweep has, as its origin or its destination, a tile that an earlier
\* merge of the same sweep made.
C1_NoTileMergesTwice ==
  pc = "moved" => \A k \in 1 .. Len(merges) : ~merges[k].again

\* C2: the sum of all tile values after move_all is at least the sum before it.
C2_SumNeverDecreases ==
  [][pc = "move" => Sum(grid') >= Sum(grid)]_vars

\* C3: every merge of two tiles of value v empties the origin cell, sets the
\* destination to exactly 2v and adds exactly 2v to the score.
C3_MergeDoubles ==
  pc = "moved" =>
    \A k \in 1 .. Len(merges) :
       /\ merges[k].origin = 0
       /\ merges[k].result = 2 * merges[k].v
       /\ merges[k].added = 2 * merges[k].v

\* C4: can_move is false if and only if no cell is empty and no two cells next
\* to each other, anywhere in the grid, hold equal values.
C4_CanMoveIffEmptyOrPair ==
  can_move(grid) <=> (HasEmpty(grid) \/ HasEqualNeighbours(grid))

\* no tile has an empty in-bounds cell next to it in direction d
NoGap(g, d) ==
  \A c \in Cells :
     (g[c[1]][c[2]].value # 0 /\ InBounds(Toward(c, d)))
       => g[Toward(c, d)[1]][Toward(c, d)[2]].value # 0

\* C5: when move_all returns, no non-empty tile has an empty in-bounds cell
\* next to it in the direction of the move.
C5_NoGapAfterMove ==
  (pc = "moved" /\ pre.state = "Playing") => NoGap(grid, key)

\* two equal non-empty unblocked tiles next to each other along d
MissedMerge(g, d) ==
  \E c \in Cells :
     /\ InBounds(Toward(c, d))
     /\ g[c[1]][c[2]].value # 0
     /\ g[c[1]][c[2]].value = g[Toward(c, d)[1]][Toward(c, d)[2]].value
     /\ ~g[c[1]][c[2]].blocked
     /\ ~g[Toward(c, d)[1]][Toward(c, d)[2]].blocked

\* C8: after a move_all(d) that reports moved, and before the blocked flags
\* are reset, no two equal non-empty unblocked tiles are next to each other
\* along d.
C8_NoMissedMerge ==
  (pc = "moved" /\ moved) => ~MissedMerge(grid, key)

\* a pair of equal non-empty tiles along d that the blocked flag kept apart
W8_BlockedPairKept ==
  /\ pc = "moved"
  /\ moved
  /\ merges # <<>>
  /\ \E c \in Cells :
       /\ InBounds(Toward(c, key))
       /\ grid[c[1]][c[2]].value # 0
       /\ grid[c[1]][c[2]].value = grid[Toward(c, key)[1]][Toward(c, key)[2]].value
       /\ \/ grid[c[1]][c[2]].blocked
          \/ grid[Toward(c, key)[1]][Toward(c, key)[2]].blocked

\* C6: once Won the state stays Won; the only changes of the state are
\* Playing to Won and Playing to Lost.
C6_StateOnlyLeavesPlaying ==
  [][state' # state => (state = "Playing" /\ state' \in {"Won", "Lost"})]_vars

\* C7: a move_all started in Playing returns with the state Won exactly when
\* one of its merges made a tile of value 2048.
C7_WonIffMerge2048 ==
  [][(pc = "move" /\ state = "Playing") =>
       (state' = "Won" <=>
          \E k \in 1 .. Len(merges') : merges'[k].result = 2048)]_vars

\* a move that made a 2048 tile has returned, and the state is Won
W7_WonByMerge ==
  /\ pc = "moved"
  /\ pre.state = "Playing"
  /\ state = "Won"
  /\ \E k \in 1 .. Len(merges) : merges[k].result = 2048

\* C9: a direction key that arrives in Playing on a full grid with no two
\* neighbours equal leaves the tile values and the score unchanged, spawns
\* nothing and sets the state to Lost in that iteration.
C9_DeadGridKeyLoses ==
  [][(pre.dead /\ pre.state = "Playing") =>
       /\ pc = "move" =>
            /\ ValuesOf(grid') = pre.values
            /\ score' = pre.score
            /\ ~moved'
       /\ pc = "moved" =>
            /\ ValuesOf(grid') = pre.values
            /\ score' = pre.score
            /\ points_appearing' = <<>>
            /\ state' = "Lost"]_vars

\* a direction key has been handled that arrived in Playing on a dead grid
W9_DeadKeyHandled ==
  /\ pc = "wait"
  /\ pre.dead
  /\ pre.state = "Playing"
  /\ state = "Lost"

\* C10: a direction key that arrives when the state is Won or Lost moves and
\* merges no tile, adds nothing to the score, records no Movement and spawns
\* no tile; the quit key is still taken in those states.
C10_NoMoveOnceOver ==
  [][/\ (pre.state \in {"Won", "Lost"} /\ pc = "move") =>
          /\ ValuesOf(grid') = ValuesOf(grid)
          /\ score' = score
          /\ tiles_moving' = <<>>
          /\ merges' = <<>>
     /\ (pre.state \in {"Won", "Lost"} /\ pc = "moved") =>
          /\ ValuesOf(grid') = ValuesOf(grid)
          /\ score' = score
          /\ points_appearing' = <<>>
     /\ (state \in {"Won", "Lost"} /\ pc = "wait") => ENABLED KeyQuit]_vars

\* a direction key has been handled that arrived in a Won game
W10_KeyHandledWhenWon ==
  /\ pc = "wait"
  /\ pre.state = "Won"

\* anything of the animation still pending: a Movement or an Appearing
Animating == tiles_moving # <<>> \/ points_appearing # <<>>

\* C11: whenever the loop waits for input while a Movement or an Appearing is
\* pending, the wait is the timed one, never the blocking one.
C11_AnimatingWaitIsTimed ==
  (pc = "wait" /\ Animating) => timed_wait(tiles_moving)

\* C12: pending Movements and Appearings are finished without any key: from
\* every state with something pending the loop comes to a state with
\* nothing pending (or is left by the quit key).
C12_AnimationFinishesUnaided ==
  Animating ~> (~Animating \/ pc = "done")

\* no tile of the grid has its pending flag or its blocked flag set
NoFlags(g) == \A c \in Cells : ~g[c[1]][c[2]].pending /\ ~g[c[1]][c[2]].blocked

\* C13: every move starts from a settled grid: when move_all is about to be
\* called no Movement and no Appearing is pending and no tile is flagged
\* pending or blocked.
C13_MoveStartsSettled ==
  pc = "move" =>
    /\ tiles_moving = <<>>
    /\ points_appearing = <<>>
    /\ NoFlags(grid)

\* a key handled after an earlier sweep that merged, so that flags had been set
W13_SecondMoveSettled ==
  pc = "move" /\ state = "Playing" /\ merges # <<>> /\ pre.state # "none"

\* C14: finish_animation is idempotent: with no Movement and no Appearing
\* pending it leaves the grid and both lists as they are, and called twice in
\* a row it leaves what one call leaves.
C14_FinishAnimationIdempotent ==
  LET once  == finished(grid, tiles_moving, points_appearing)
      twice == finished(once.grid, once.tiles_moving, once.points_appearing)
  IN /\ twice = once
     /\ ~Animating => once = [grid |-> grid, tiles_moving |-> tiles_moving,
                              points_appearing |-> points_appearing]

\* a wait with both a Movement and an Appearing pending, where the first
\* call has work to do
W14_BothPending ==
  pc = "wait" /\ tiles_moving # <<>> /\ points_appearing # <<>>

\* C15: when a direction key reported moved = false, the same direction
\* applied again right after it reports moved = false too and leaves the tile
\* values and the score as they are.
C15_SameDirectionAgainStaysPut ==
  [][(pc = "move" /\ pre.again) =>
       (~moved' /\ ValuesOf(grid') = ValuesOf(grid) /\ score' = score)]_vars

\* the same direction handled a second time, by move_all, after it did not move
W15_SecondSameKeyApplied ==
  pc = "moved" /\ pre.again /\ state = "Playing" /\ can_move(grid)

\* C16: get_progress returns a ratio within [0, 1] (0 .. 1000 thousandths)
\* at every draw, whatever time has passed since animation_start.
C16_ProgressWithinUnit ==
  get_progress(elapsed) \in 0 .. 1000

\* the cells of a grid that hold no tile
EmptyCells(g) == {c \in Cells : g[c[1]][c[2]].value = 0}

\* C17: a call of add_tile records exactly one Appearing, of value 2 or 4 and
\* on a cell that is empty in the grid, when the grid has an empty cell (so on
\* that cell when it is the only one), and records nothing when it has none.
C17_AddTileRecordsOne ==
  LET g   == unblock(grid)
      pa  == points_appearing
      res == add_tile(g, pa)
  IN /\ res # {}
     /\ IF EmptyCells(g) # {}
        THEN \A r \in res :
               /\ Len(r) = Len(pa) + 1
               /\ SubSeq(r, 1, Len(pa)) = pa
               /\ r[Len(r)].value \in {2, 4}
               /\ r[Len(r)].position \in EmptyCells(g)
        ELSE res = {pa}

\* after a move the one Appearing recorded targets the only empty cell
W17_SpawnOnOnlyEmptyCell ==
  /\ pc = "wait"
  /\ pre.moved
  /\ Len(points_appearing) = 1
  /\ EmptyCells(grid) = {points_appearing[1].position}

\* the sweep g records a Movement that starts at cell c
HasMovementFrom(g, c) ==
  \E k \in 1 .. Len(g.tiles_moving) : g.tiles_moving[k].pold = c

\* move_all(d) on the game reports moved exactly when it pushed a Movement,
\* and pushed one for exactly the tiles that end in another cell
MovementsMatch(d) ==
  LET g == move_all(Game, d)
  IN /\ g.moved <=> g.tiles_moving # <<>>
     /\ \A c \in Cells :
          grid[c[1]][c[2]].value # 0 =>
            (g.at[c] # c <=> HasMovementFrom(g, c))

\* C18: after move_all the moved flag is true iff the call pushed at least one
\* Movement, and a Movement is recorded for exactly the tiles whose final cell
\* differs from their starting cell.
C18_MovementForEachMovedTile ==
  (pc = "move" /\ state = "Playing") => MovementsMatch(key)

\* move_all(d) on the grid as finish_animation leaves it reports moved
MoveWouldMove(d) ==
  move_all([Game EXCEPT !.grid = finish_animation(grid, tiles_moving,
                                                  points_appearing),
                        !.tiles_moving = <<>>,
                        !.moved = FALSE], d).moved

\* C19: the state is Lost only on a grid where move_all would report
\* moved = false for Up, Down, Left and Right.
C19_LostOnlyWhenNothingMoves ==
  state = "Lost" => \A d \in Directions : ~MoveWouldMove(d)

\* the number of tiles of a grid
Tiles(g) == Cardinality(Cells \ EmptyCells(g))

\* C20: the pending Appearings target pairwise distinct cells that are empty
\* in the grid, so that committing them adds one tile each (two tiles after
\* the two start-up spawns) and overwrites nothing.
C20_AppearingsOnDistinctEmptyCells ==
  /\ \A k \in 1 .. Len(points_appearing) :
       points_appearing[k].position \in EmptyCells(grid)
  /\ \A k, l \in 1 .. Len(points_appearing) :
       k # l => points_appearing[k].position # points_appearing[l].position
  /\ Tiles(finish_animation(grid, tiles_moving, points_appearing))
       = Tiles(grid) + Len(points_appearing)

\* C21: the loop iteration of a direction key whose move reported moved = true
\* spawns exactly one tile (the grid has an empty cell then, so add_tile does
\* not decline), and the iteration of a key that reported moved = false
\* spawns none.
C21_OneSpawnPerMovingKey ==
  [][pc = "moved" =>
       IF moved
       THEN /\ HasEmpty(grid)
            /\ Len(points_appearing') = Len(points_appearing) + 1
            /\ SubSeq(points_appearing', 1, Len(points_appearing))
                 = points_appearing
            /\ points_appearing'[Len(points_appearing')].value \in {2, 4}
       ELSE points_appearing' = points_appearing]_vars

\* the wait after a key that moved: its Movements and its one spawn pending
W21_SpawnAfterMovingKey ==
  /\ pc = "wait"
  /\ pre.moved
  /\ tiles_moving # <<>>
  /\ Len(points_appearing) = 1
  /\ elapsed = 0

====
